---------------------------- MODULE Spec2Model ----------------------------
(***************************************************************************)
(* Model of docs/_ext/proxmox-scanrefs.py: the Sphinx builder              *)
(* ReflabelMapper, which collects the explicitly labelled sections of the  *)
(* documentation into env.online_help and writes OnlineHelpInfo.js.        *)
(*                                                                         *)
(* Python strings are modelled as sequences of one-character strings, so   *)
(* that slicing, regular expressions and JSON encoding are computed        *)
(* character by character as the code computes them.                       *)
(* env.online_help (a dict, which keeps insertion order) is modelled as a  *)
(* sequence of records [key, link, title].                                 *)
(***************************************************************************)
EXTENDS Integers, Sequences, FiniteSets, TLC

(***************************************************************************)
(* Bounds of the model.                                                    *)
(***************************************************************************)
\* write_doc calls in one session
MaxDocs == 2

\* section nodes handed to write_doc in one session, all documents together
MaxSections == 2

(***************************************************************************)
(* String literals of the source.                                          *)
(***************************************************************************)
\* The character U+0060 (grave accent, the backtick of the reST role markup);
\* it cannot be written inside a TLA+ string, so it has a name.
Grave == "GRAVE"

\* Characters that cannot be written inside a TLA+ string have names too:
\* U+0008 backspace, U+001B escape, U+007F delete, U+00E9 e with acute,
\* U+2019 right single quotation mark, U+1F600 (outside the basic plane).
Backspace == "U+0008"

Escape == "U+001B"

Delete == "U+007F"

EAcute == "U+00E9"

RightQuote == "U+2019"

Grinning == "U+1F600"

\* the characters of the model outside U+0020..U+007E
NonPrintable ==
    {"\t", "\n", "\f", "\r", Backspace, Escape, Delete, EAcute, RightQuote, Grinning}

\* ord(c) for those characters
CodePoint(c) ==
    CASE c = Backspace -> 8
      [] c = "\t" -> 9
      [] c = "\n" -> 10
      [] c = "\f" -> 12
      [] c = "\r" -> 13
      [] c = Escape -> 27
      [] c = Delete -> 127
      [] c = EAcute -> 233
      [] c = RightQuote -> 8217
      [] c = Grinning -> 128512

BootKey ==
    <<"p", "b", "s", "_", "d", "o", "c", "u", "m", "e", "n", "t", "a", "t", "i", "o", "n", "_", "i", "n", "d", "e", "x">>

BootLink ==
    <<"/", "d", "o", "c", "s", "/", "i", "n", "d", "e", "x", ".", "h", "t", "m", "l">>

BootTitle ==
    <<"P", "r", "o", "x", "m", "o", "x", " ", "B", "a", "c", "k", "u", "p", " ", "S", "e", "r", "v", "e", "r", " ", "D", "o", "c", "u", "m", "e", "n", "t", "a", "t", "i", "o", "n", " ", "I", "n", "d", "e", "x">>

DocsPrefix ==
    <<"/", "d", "o", "c", "s", "/">>

TermPrefix ==
    <<":", "t", "e", "r", "m", ":", Grave>>

TermPrefixLen == 7

RstTail ==
    <<"r", "s", "t">>

HtmlExt ==
    <<".", "h", "t", "m", "l">>

JsPrefix ==
    <<"c", "o", "n", "s", "t", " ", "p", "r", "o", "x", "m", "o", "x", "O", "n", "l", "i", "n", "e", "H", "e", "l", "p", "I", "n", "f", "o", " ", "=", " ">>

JsSuffix ==
    <<";", "\n">>

LinkName ==
    <<"l", "i", "n", "k">>

TitleName ==
    <<"t", "i", "t", "l", "e">>

Digits ==
    {"0", "1", "2", "3", "4", "5", "6", "7", "8", "9"}

(***************************************************************************)
(* Inputs: identifiers, raw title texts, source paths and section nodes    *)
(* handed to write_doc by the documentation renderer.                      *)
(***************************************************************************)
IdPools ==
    <<"p", "o", "o", "l", "s">>

IdIntro ==
    <<"i", "n", "t", "r", "o">>

IdMgmt ==
    <<"m", "g", "m", "t">>

IdBare ==
    <<"i", "d">>

Id12 ==
    <<"i", "d", "1", "2">>

Id3 ==
    <<"i", "d", "3">>

RawPools ==
    <<"P", "o", "o", "l", "s">>

RawTerm ==
    <<":", "t", "e", "r", "m", ":", Grave, "F", "o", "o", Grave>>

\* a title with characters the JSON encoder escapes in each of its ways
RawQuote ==
    <<"A", " ", "\"", "b", "\"", "\f", EAcute, RightQuote, Grinning>>

RawTermOpen ==
    <<":", "t", "e", "r", "m", ":", Grave, "x">>

FileStorage ==
    <<"/", "s", "/", "a", "b", ".", "r", "s", "t">>

FileFirst ==
    <<"/", "s", "/", "x", "r", "s", "t", ".", "r", "s", "t">>

Filenames ==
    {FileStorage, FileFirst}

\* A section node: hasRef is hasattr(node, expect_referenced_by_id),
\* ids is node['ids'], rawsource is node[0].rawsource.
Node(r, i, t) ==
    [hasRef |-> r, ids |-> i, rawsource |-> t]

NodeSet ==
    { Node(TRUE,  <<IdPools>>,                RawPools),
      Node(FALSE, <<IdPools, IdMgmt>>,        RawPools),
      Node(TRUE,  <<IdPools, Id12>>,          RawPools),
      Node(TRUE,  <<IdPools, IdMgmt>>,        RawTerm),
      Node(TRUE,  <<IdIntro, IdBare>>,        RawQuote),
      Node(TRUE,  <<IdIntro, IdMgmt, Id3>>,   RawTermOpen),
      Node(TRUE,  <<IdIntro, BootKey>>,       RawPools) }

\* the trees of at most n section nodes
Doctrees(n) ==
    UNION { [1..k -> NodeSet] : k \in 0..n }

(***************************************************************************)
(* Pure helpers of write_doc.                                              *)
(***************************************************************************)
\* s[:n]
Take(s, n) ==
    SubSeq(s, 1, IF n < Len(s) THEN n ELSE Len(s))

\* the pattern with at least one digit, ^id[0-9]+$
IsGenericIdDigits(s) ==
    /\ Len(s) >= 3
    /\ s[1] = "i"
    /\ s[2] = "d"
    /\ \E e \in {Len(s), Len(s) - 1} :
          /\ e >= 3
          /\ e = Len(s) - 1 => s[Len(s)] = "\n"
          /\ \A i \in 3..e : s[i] \in Digits

\* re.match(^id[0-9]*$, s): "id", then any number of digits (none
\* included), up to the end of the string or to one final newline.
IsGenericId(s) ==
    /\ Len(s) >= 2
    /\ s[1] = "i"
    /\ s[2] = "d"
    /\ \E e \in {Len(s), Len(s) - 1} :
          /\ e >= 2
          /\ e = Len(s) - 1 => s[Len(s)] = "\n"
          /\ \A i \in 3..e : s[i] \in Digits

\* lines 100-103
LabelId(ids) ==
    IF IsGenericId(ids[2]) THEN ids[1] ELSE ids[2]

\* lines 107-110: a ref_name that starts with the term role markup becomes ref_name[7:-1]
RefName(raw) ==
    IF Take(raw, TermPrefixLen) = TermPrefix
    THEN SubSeq(raw, TermPrefixLen + 1, Len(raw) - 1)
    ELSE raw

\* re.sub(.rst, .html, s): every leftmost non-overlapping occurrence of
\* one character other than newline followed by "rst" becomes ".html".
RECURSIVE ReSubFrom(_, _)
ReSubFrom(s, i) ==
    IF i > Len(s) THEN <<>>
    ELSE IF /\ i + 3 <= Len(s)
            /\ s[i] # "\n"
            /\ SubSeq(s, i + 1, i + 3) = RstTail
         THEN HtmlExt \o ReSubFrom(s, i + 4)
         ELSE <<s[i]>> \o ReSubFrom(s, i + 1)

ReSub(s) ==
    ReSubFrom(s, 1)

\* os.path.basename(p): what follows the last "/"
Basename(p) ==
    LET slashes == { i \in 1..Len(p) : p[i] = "/" }
        last == IF slashes = {} THEN 0
                ELSE CHOOSE i \in slashes : \A j \in slashes : j <= i
    IN SubSeq(p, last + 1, Len(p))

\* line 113
Link(fname, labelid) ==
    DocsPrefix \o Basename(ReSub(fname)) \o <<"#">> \o labelid

(***************************************************************************)
(* The dict env.online_help.                                               *)
(***************************************************************************)
Entry(k, l, t) ==
    [key |-> k, link |-> l, title |-> t]

Keys(d) ==
    { d[i].key : i \in 1..Len(d) }

\* a dict store that keeps the value of an existing key
DictSetKeepFirst(d, k, l, t) ==
    IF k \in Keys(d) THEN d ELSE Append(d, Entry(k, l, t))

\* d[k] = v: an existing key keeps its position, a new key goes last
DictSet(d, k, l, t) ==
    IF k \in Keys(d)
    THEN [ i \in 1..Len(d) |-> IF d[i].key = k THEN Entry(k, l, t) ELSE d[i] ]
    ELSE Append(d, Entry(k, l, t))

\* the test of line 90 without the hasattr conjunct
IsIndexedAnyIds(node) ==
    Len(node.ids) > 1

\* line 90
IsIndexed(node) ==
    node.hasRef /\ Len(node.ids) > 1

\* lines 90-114, the body of the loop for one section node
ProcessNode(d, fname, node) ==
    IF IsIndexed(node)
    THEN DictSet(d, LabelId(node.ids),
                 Link(fname, LabelId(node.ids)), RefName(node.rawsource))
    ELSE d

\* lines 87-116, the loop over the section nodes of one document
RECURSIVE ProcessNodes(_, _, _, _)
ProcessNodes(d, fname, tree, i) ==
    IF i > Len(tree) THEN d
    ELSE ProcessNodes(ProcessNode(d, fname, tree[i]), fname, tree, i + 1)

\* the commented-out body of validate_anchors with no anchor in use:
\* every entry but the index entry is removed
ValidateAnchorsPrune(d) ==
    SelectSeq(d, LAMBDA e : e.key = BootKey)

\* lines 128-143: every statement of the body is commented out
ValidateAnchors(d) ==
    d

(***************************************************************************)
(* json.dumps(obj, indent=2) on a dict of dicts of strings.                *)
(***************************************************************************)
HexDigits ==
    <<"0", "1", "2", "3", "4", "5", "6", "7", "8", "9", "a", "b", "c", "d", "e", "f">>

\* '\\u{0:04x}'.format(n)
UEscape(n) ==
    <<"\\", "u", HexDigits[((n \div 4096) % 16) + 1], HexDigits[((n \div 256) % 16) + 1],
      HexDigits[((n \div 16) % 16) + 1], HexDigits[(n % 16) + 1]>>

\* The string encoder of json.dumps (ensure_ascii): the two-character
\* escapes of ", \, backspace, form feed, newline, carriage return and tab;
\* \uXXXX for every other character outside U+0020..U+007E, as a surrogate
\* pair beyond U+FFFF; every other character is copied.
JsonEscape(c) ==
    IF c = "\"" THEN <<"\\", "\"">>
    ELSE IF c = "\\" THEN <<"\\", "\\">>
    ELSE IF c = Backspace THEN <<"\\", "b">>
    ELSE IF c = "\f" THEN <<"\\", "f">>
    ELSE IF c = "\n" THEN <<"\\", "n">>
    ELSE IF c = "\r" THEN <<"\\", "r">>
    ELSE IF c = "\t" THEN <<"\\", "t">>
    ELSE IF c \in NonPrintable
         THEN LET n == CodePoint(c)
              IN IF n < 65536 THEN UEscape(n)
                 ELSE UEscape(55296 + ((n - 65536) \div 1024))
                      \o UEscape(56320 + ((n - 65536) % 1024))
    ELSE <<c>>

RECURSIVE JsonChars(_, _)
JsonChars(s, i) ==
    IF i > Len(s) THEN <<>>
    ELSE JsonEscape(s[i]) \o JsonChars(s, i + 1)

JsonString(s) ==
    <<"\"">> \o JsonChars(s, 1) \o <<"\"">>

Indent(n) ==
    [ i \in 1..(2 * n) |-> " " ]

\* the value {'link': ..., 'title': ...} of one key, at nesting level 1
JsonEntry(e) ==
    <<"{", "\n">>
    \o Indent(2) \o JsonString(LinkName) \o <<":", " ">> \o JsonString(e.link)
    \o <<",", "\n">>
    \o Indent(2) \o JsonString(TitleName) \o <<":", " ">> \o JsonString(e.title)
    \o <<"\n">> \o Indent(1) \o <<"}">>

RECURSIVE JsonItems(_, _)
JsonItems(d, i) ==
    IF i > Len(d) THEN <<>>
    ELSE (IF i > 1 THEN <<",", "\n">> ELSE <<>>)
         \o Indent(1) \o JsonString(d[i].key) \o <<":", " ">> \o JsonEntry(d[i])
         \o JsonItems(d, i + 1)

JsonDumps(d) ==
    IF d = <<>> THEN <<"{", "}">>
    ELSE <<"{", "\n">> \o JsonItems(d, 1) \o <<"\n", "}">>


\* lines 149-151: the three texts finish hands to self.output.write
Chunks(d) ==
    <<JsPrefix, JsonDumps(d), JsSuffix>>

(***************************************************************************)
(* The file object of io.open(name, mode w, encoding UTF-8) as CPython     *)
(* 3.11 implements it: a TextIOWrapper that collects the written text and  *)
(* hands it on when ChunkSize characters are pending, over a               *)
(* BufferedWriter of BufferSize bytes, over the file.  Every character     *)
(* finish writes is ASCII, so one character is one byte.  The file system  *)
(* accepts bytes up to the size limit of the file and fails the write      *)
(* that starts at or beyond it.                                            *)
(***************************************************************************)
\* TextIOWrapper._CHUNK_SIZE
ChunkSize == 8192

\* the buffer size io.open chooses: st_blksize of the output file
BufferSize == 4096

\* no limit on the size of the output file
NoLimit == -1

Drop(s, n) ==
    SubSeq(s, n + 1, Len(s))

\* how many of n more bytes the file takes
Accepts(lim, file, n) ==
    IF lim = NoLimit THEN n
    ELSE IF lim - Len(file) >= n THEN n
    ELSE IF lim > Len(file) THEN lim - Len(file)
    ELSE 0

\* A handle io is [file, buf, stale, ok]: the content of the file, the
\* bytes the BufferedWriter holds, the bytes at the start of its buffer
\* that are in the file already but still take room after a failed flush,
\* and whether no call has raised.
\* BufferedWriter flush: write the buffer out; what the file does not take
\* stays in the buffer and the flush raises.
FlushBuffer(io, lim) ==
    LET k == Accepts(lim, io.file, Len(io.buf))
    IN IF k = Len(io.buf)
       THEN [file |-> io.file \o io.buf, buf |-> <<>>, stale |-> 0, ok |-> TRUE]
       ELSE [file |-> io.file \o Take(io.buf, k), buf |-> Drop(io.buf, k),
             stale |-> io.stale + k, ok |-> FALSE]

\* BufferedWriter write: data that fits in the free room is buffered;
\* otherwise the buffer is flushed first, data longer than the buffer goes
\* to the file directly until what is left fits, and the rest is buffered.
BufferedWrite(io, lim, data) ==
    IF Len(data) <= BufferSize - (io.stale + Len(io.buf))
    THEN [io EXCEPT !.buf = @ \o data]
    ELSE LET f == FlushBuffer(io, lim)
             k == Accepts(lim, f.file, Len(data))
         IN IF ~f.ok THEN f
            ELSE IF Len(data) <= BufferSize THEN [f EXCEPT !.buf = data]
            ELSE IF k = Len(data) THEN [f EXCEPT !.file = @ \o data]
            ELSE IF Len(data) - k > BufferSize
                 THEN [f EXCEPT !.file = @ \o Take(data, k), !.ok = FALSE]
            ELSE [f EXCEPT !.file = @ \o Take(data, k), !.buf = Drop(data, k)]

\* TextIOWrapper write on t = [io, pending]: the pending text is handed on
\* first when the new text would take it beyond ChunkSize, and again when
\* ChunkSize characters are pending; text handed on in a call that raises
\* is lost.  Nothing is executed after a call that raised.
TextWrite(t, lim, text) ==
    IF ~t.io.ok THEN t
    ELSE LET a == IF Len(t.pending) + Len(text) > ChunkSize
                  THEN [io |-> BufferedWrite(t.io, lim, t.pending), pending |-> text]
                  ELSE [io |-> t.io, pending |-> t.pending \o text]
         IN IF ~a.io.ok THEN [io |-> a.io, pending |-> <<>>]
            ELSE IF Len(a.pending) >= ChunkSize
                 THEN [io |-> BufferedWrite(a.io, lim, a.pending), pending |-> <<>>]
            ELSE a

\* TextIOWrapper close: hand on the pending text, flush the buffer, then
\* close the BufferedWriter, which flushes once more and closes the file
\* whether or not a flush raised.
TextClose(t, lim) ==
    LET w == BufferedWrite(t.io, lim, t.pending)
        f == IF w.ok THEN FlushBuffer(w, lim) ELSE w
        g == FlushBuffer([f EXCEPT !.ok = TRUE], lim)
    IN [file |-> g.file, ok |-> f.ok /\ g.ok]

(***************************************************************************)
(* State.                                                                  *)
(*   online_help  env.online_help; the empty sequence before the first     *)
(*                init, when env has no such attribute                     *)
(*   output       self.output: "unset", "open" or "closed"                 *)
(*   written      the content of OnlineHelpInfo.js                         *)
(*   buffered, stale   what the BufferedWriter of an open self.output      *)
(*                holds after a write that raised: the bytes not yet in    *)
(*                the file, and the room taken by bytes already in it      *)
(*   error        the exception the last operation raised, "none" if it    *)
(*                returned                                                 *)
(*   disk, limit  what the file system does in this run: "ok"; "nodir"     *)
(*                (os.mkdir fails); "noopen" (io.open fails); "nowrite"    *)
(*                (the output file cannot grow beyond limit bytes)         *)
(*   filename, doctree   the arguments of the last write_doc since init:   *)
(*                the path env.doc2path(docname) and the section nodes of  *)
(*                the tree in traversal order                              *)
(*   ndocs        number of write_doc calls so far                         *)
(*   nsecs        number of section nodes traversed so far                 *)
(***************************************************************************)
VARIABLES online_help, output, written, buffered, stale, error, disk, limit,
          filename, doctree, ndocs, nsecs

vars ==
    <<online_help, output, written, buffered, stale, error, disk, limit,
      filename, doctree, ndocs, nsecs>>

DiskFates ==
    {"ok", "nodir", "noopen", "nowrite"}

\* the size limits of the runs in which the output file cannot grow
Limits ==
    {10, 40}

\* The state of the session: Aborted when the last operation raised,
\* otherwise as self.output tells.
state ==
    IF error # "none" THEN "Aborted"
    ELSE IF output = "unset" THEN "Uninitialized"
    ELSE IF output = "open" THEN "SessionOpen"
    ELSE "Finalized"

\* a new instance: env has no online_help, the instance no output
Init ==
    /\ online_help = <<>>
    /\ output = "unset"
    /\ written = <<>>
    /\ buffered = <<>>
    /\ stale = 0
    /\ error = "none"
    /\ disk \in DiskFates
    /\ limit \in (IF disk = "nowrite" THEN Limits ELSE {NoLimit})
    /\ filename = <<>>
    /\ doctree = <<>>
    /\ ndocs = 0
    /\ nsecs = 0

\* lines 71-75
InitTable ==
    DictSet(<<>>, BootKey, BootLink, BootTitle)

\* lines 80-84: os.mkdir and io.open raise OSError when they fail, and then
\* self.output is not assigned and the file is not touched; io.open with
\* mode w empties the file and returns a new handle
OpenOutput(fate, out, text, buf, st) ==
    IF fate \in {"nodir", "noopen"}
    THEN [output |-> out, written |-> text, buffered |-> buf, stale |-> st,
          error |-> "OSError"]
    ELSE [output |-> "open", written |-> <<>>, buffered |-> <<>>, stale |-> 0,
          error |-> "none"]

\* ReflabelMapper.init.  The method tests nothing about earlier calls: in
\* every state it replaces the table by the bootstrap table and then opens
\* the output.
InitBuilder ==
    /\ online_help' = InitTable
    /\ LET r == OpenOutput(disk, output, written, buffered, stale)
       IN /\ output' = r.output
          /\ written' = r.written
          /\ buffered' = r.buffered
          /\ stale' = r.stale
          /\ error' = r.error
    /\ filename' = <<>>
    /\ doctree' = <<>>
    /\ UNCHANGED <<disk, limit, ndocs, nsecs>>

\* line 112 raises AttributeError at the first indexed section when env
\* has no online_help
WriteDocRaises(d, tree) ==
    d = <<>> /\ \E i \in 1..Len(tree) : IsIndexed(tree[i])

\* ReflabelMapper.write_doc, once per document and in the order the host
\* chooses.  It does not look at self.output.
WriteDoc ==
    /\ ndocs < MaxDocs
    /\ \E f \in Filenames, t \in Doctrees(MaxSections - nsecs) :
          /\ filename' = f
          /\ doctree' = t
          /\ online_help' = IF WriteDocRaises(online_help, t) THEN online_help
                            ELSE ProcessNodes(online_help, f, t, 1)
          /\ error' = IF WriteDocRaises(online_help, t) THEN "AttributeError"
                      ELSE "none"
          /\ nsecs' = nsecs + Len(t)
    /\ ndocs' = ndocs + 1
    /\ UNCHANGED <<output, written, buffered, stale, disk, limit>>

\* what finish leaves behind: t is the file object after the three writes,
\* c the result of the close
AfterWrites(t, c) ==
    IF t.io.ok
    THEN [written |-> c.file, output |-> "closed", buffered |-> <<>>,
          stale |-> 0, error |-> IF c.ok THEN "none" ELSE "OSError"]
    ELSE [written |-> t.io.file, output |-> "open", buffered |-> t.io.buf,
          stale |-> t.io.stale, error |-> "OSError"]

\* the three writes of the chunks c and the close, one after the other,
\* on the file object t0
WriteChunks(t0, c, lim) ==
    CHOOSE r \in
        { AfterWrites(t3, TextClose(t3, lim)) :
            t3 \in { TextWrite(t2, lim, c[3]) :
                t2 \in { TextWrite(t1, lim, c[2]) :
                    t1 \in { TextWrite(t0, lim, c[1]) } } } } : TRUE

\* lines 149-152 on an open handle.  A write that raises leaves the handle
\* open, a close that raises leaves it closed.
WriteOutput(d, text, buf, st, lim) ==
    LET t0 == [io |-> [file |-> text, buf |-> buf, stale |-> st, ok |-> TRUE],
               pending |-> <<>>]
    IN CHOOSE r \in { WriteChunks(t0, c, lim) : c \in {Chunks(d)} } : TRUE

\* ReflabelMapper.finish.  Without self.output the first write raises
\* AttributeError, on a closed handle it raises ValueError, and nothing is
\* written in either case.
Finish ==
    /\ online_help' = ValidateAnchors(online_help)
    /\ IF output = "unset"
       THEN /\ error' = "AttributeError"
            /\ UNCHANGED <<output, written, buffered, stale>>
       ELSE IF output = "closed"
       THEN /\ error' = "ValueError"
            /\ UNCHANGED <<output, written, buffered, stale>>
       ELSE LET r == WriteOutput(online_help', written, buffered, stale, limit)
            IN /\ written' = r.written
               /\ output' = r.output
               /\ buffered' = r.buffered
               /\ stale' = r.stale
               /\ error' = r.error
    /\ UNCHANGED <<disk, limit, filename, doctree, ndocs, nsecs>>

Next ==
    \/ InitBuilder
    \/ WriteDoc
    \/ Finish

Spec == Init /\ [][Next]_vars

(***************************************************************************)
(* Reading back the written text: a JSON reader for objects whose values   *)
(* are strings or objects, used to state what finish has written.          *)
(***************************************************************************)
JsonSpace ==
    {" ", "\n", "\t", "\r"}

\* the first position from i on that holds no white space
SkipSpace(s, i) ==
    CHOOSE j \in i..(Len(s) + 1) :
        /\ j <= Len(s) => s[j] \notin JsonSpace
        /\ \A k \in i..(j - 1) : s[k] \in JsonSpace

\* the position of the quote that closes a string, scanning from j and
\* stepping over escaped characters; 0 if there is none
RECURSIVE StringEnd(_, _)
StringEnd(s, j) ==
    IF j > Len(s) THEN 0
    ELSE IF s[j] = "\\" THEN StringEnd(s, j + 2)
    ELSE IF s[j] = "\"" THEN j
    ELSE StringEnd(s, j + 1)

HexValue(h) ==
    (CHOOSE i \in 1..16 : HexDigits[i] = h) - 1

\* the number written as four hexadecimal digits at t[i..i+3]
Hex4(t, i) ==
    HexValue(t[i]) * 4096 + HexValue(t[i + 1]) * 256
        + HexValue(t[i + 2]) * 16 + HexValue(t[i + 3])

\* chr(n) for the characters of the model
CharOf(n) ==
    CHOOSE c \in NonPrintable : CodePoint(c) = n

Unescaped(c) ==
    IF c = "n" THEN "\n"
    ELSE IF c = "t" THEN "\t"
    ELSE IF c = "r" THEN "\r"
    ELSE IF c = "f" THEN "\f"
    ELSE IF c = "b" THEN Backspace
    ELSE c

IsHighSurrogate(n) ==
    n >= 55296 /\ n < 56320

RECURSIVE JsonUnescape(_, _)
JsonUnescape(t, i) ==
    IF i > Len(t) THEN <<>>
    ELSE IF t[i] = "\\" /\ i < Len(t)
         THEN IF t[i + 1] = "u" /\ i + 5 <= Len(t)
              THEN IF IsHighSurrogate(Hex4(t, i + 2)) /\ i + 11 <= Len(t)
                   THEN <<CharOf(65536 + (Hex4(t, i + 2) - 55296) * 1024
                                       + (Hex4(t, i + 8) - 56320))>>
                        \o JsonUnescape(t, i + 12)
                   ELSE <<CharOf(Hex4(t, i + 2))>> \o JsonUnescape(t, i + 6)
              ELSE <<Unescaped(t[i + 1])>> \o JsonUnescape(t, i + 2)
         ELSE <<t[i]>> \o JsonUnescape(t, i + 1)

ParseFail ==
    [ok |-> FALSE, val |-> <<>>, next |-> 0]

ParseString(s, i0) ==
    LET i == SkipSpace(s, i0)
    IN IF i > Len(s) \/ s[i] # "\"" THEN ParseFail
       ELSE LET j == StringEnd(s, i + 1)
            IN IF j = 0 THEN ParseFail
               ELSE [ok |-> TRUE,
                     val |-> JsonUnescape(SubSeq(s, i + 1, j - 1), 1),
                     next |-> j + 1]

\* the position after the character c, 0 if c is not the next token
Expect(s, i0, c) ==
    LET i == SkipSpace(s, i0)
    IN IF i <= Len(s) /\ s[i] = c THEN i + 1 ELSE 0

\* "name": "text" members up to the closing brace
RECURSIVE ParseFields(_, _, _)
ParseFields(s, i, acc) ==
    LET k == ParseString(s, i)
    IN IF ~k.ok THEN ParseFail
       ELSE LET c == Expect(s, k.next, ":")
            IN IF c = 0 THEN ParseFail
               ELSE LET v == ParseString(s, c)
                    IN IF ~v.ok THEN ParseFail
                       ELSE LET acc2 == Append(acc, <<k.val, v.val>>)
                                nx == SkipSpace(s, v.next)
                            IN IF nx > Len(s) THEN ParseFail
                               ELSE IF s[nx] = "," THEN ParseFields(s, nx + 1, acc2)
                               ELSE IF s[nx] = "}"
                                    THEN [ok |-> TRUE, val |-> acc2, next |-> nx + 1]
                                    ELSE ParseFail

ParseEntry(s, i0) ==
    LET o == Expect(s, i0, "{")
    IN IF o = 0 THEN ParseFail
       ELSE IF Expect(s, o, "}") # 0
            THEN [ok |-> TRUE, val |-> <<>>, next |-> Expect(s, o, "}")]
            ELSE ParseFields(s, o, <<>>)

\* "key": {...} members up to the closing brace
RECURSIVE ParseItems(_, _, _)
ParseItems(s, i, acc) ==
    LET k == ParseString(s, i)
    IN IF ~k.ok THEN ParseFail
       ELSE LET c == Expect(s, k.next, ":")
            IN IF c = 0 THEN ParseFail
               ELSE LET v == ParseEntry(s, c)
                    IN IF ~v.ok THEN ParseFail
                       ELSE LET acc2 == Append(acc, <<k.val, v.val>>)
                                nx == SkipSpace(s, v.next)
                            IN IF nx > Len(s) THEN ParseFail
                               ELSE IF s[nx] = "," THEN ParseItems(s, nx + 1, acc2)
                               ELSE IF s[nx] = "}"
                                    THEN [ok |-> TRUE, val |-> acc2, next |-> nx + 1]
                                    ELSE ParseFail

\* the members of the JSON object that is the whole text s, in their order
JsonLoads(s) ==
    LET o == Expect(s, 1, "{")
        r == IF o = 0 THEN ParseFail
             ELSE IF Expect(s, o, "}") # 0
                  THEN [ok |-> TRUE, val |-> <<>>, next |-> Expect(s, o, "}")]
                  ELSE ParseItems(s, o, <<>>)
    IN IF r.ok /\ SkipSpace(s, r.next) = Len(s) + 1
       THEN [ok |-> TRUE, val |-> r.val]
       ELSE [ok |-> FALSE, val |-> <<>>]

\* the table as a JSON object: its keys in order, each with link and title
AsMembers(d) ==
    [ i \in 1..Len(d) |->
        <<d[i].key, << <<LinkName, d[i].link>>, <<TitleName, d[i].title>> >> >> ]

(***************************************************************************)
(* Vocabulary of the properties.                                           *)
(***************************************************************************)
RstExt ==
    <<".", "r", "s", "t">>

\* a step of write_doc that returns
WriteDocStep ==
    ndocs' = ndocs + 1 /\ error' = "none"

\* env.online_help exists: init has been called
TableExists ==
    online_help # <<>>

\* a section that carries the label marker and two or more identifiers
HasLabel(node) ==
    node.hasRef /\ Len(node.ids) >= 2

LabelledAt(tree) ==
    { i \in 1..Len(tree) : HasLabel(tree[i]) }

KeyAt(tree, i) ==
    LabelId(tree[i].ids)

\* the last labelled section of the tree that resolves to key k
LastAt(tree, k) ==
    CHOOSE i \in LabelledAt(tree) :
        /\ KeyAt(tree, i) = k
        /\ \A j \in LabelledAt(tree) : KeyAt(tree, j) = k => j <= i

Lookup(d, k) ==
    d[CHOOSE i \in 1..Len(d) : d[i].key = k]

(***************************************************************************)
(* C1 as stated.  The key of a labelled section is ids[0] when ids[1] is   *)
(* "id" followed by digits (such as "id12") and ids[1] in every other      *)
(* case, so the keys after write_doc are the old keys and those.           *)
(***************************************************************************)
IsPlaceholder(s) ==
    /\ Len(s) >= 3
    /\ s[1] = "i"
    /\ s[2] = "d"
    /\ \A i \in 3..Len(s) : s[i] \in Digits

ClaimedKey(ids) ==
    IF IsPlaceholder(ids[2]) THEN ids[1] ELSE ids[2]

C1_DigitsRequired ==
    [][WriteDocStep =>
         Keys(online_help') =
             Keys(online_help)
             \cup { ClaimedKey(doctree'[i].ids) : i \in LabelledAt(doctree') }]_vars

(***************************************************************************)
(* C1, amended.  Canonical key rule: the key of a labelled section is      *)
(* ids[0] when ids[1] matches ^id[0-9]*$, that is "id" followed by zero or *)
(* more digits (the bare text "id" included; one final newline is          *)
(* tolerated), and ids[1] in every other case; no other identifier of the  *)
(* section becomes a key.                                                  *)
(***************************************************************************)
MatchesIdPattern(s) ==
    LET body == IF Len(s) >= 1 /\ s[Len(s)] = "\n" /\ Len(s) >= 3
                THEN {SubSeq(s, 1, Len(s) - 1), s}
                ELSE {s}
    IN \E b \in body :
          /\ Len(b) >= 2
          /\ SubSeq(b, 1, 2) = IdBare
          /\ \A i \in 3..Len(b) : b[i] \in Digits

AmendedKey(ids) ==
    IF MatchesIdPattern(ids[2]) THEN ids[1] ELSE ids[2]

C1_CanonicalKey ==
    [][WriteDocStep =>
         /\ Keys(online_help') =
               Keys(online_help)
               \cup { AmendedKey(doctree'[i].ids) : i \in LabelledAt(doctree') }
         /\ \A i \in LabelledAt(doctree') :
               /\ AmendedKey(doctree'[i].ids) \in {doctree'[i].ids[1], doctree'[i].ids[2]}
               /\ Lookup(online_help', AmendedKey(doctree'[i].ids)).link
                     = Link(filename', AmendedKey(doctree'[i].ids))]_vars

\* two documents: a bare "id" section (key intro) in the first, a custom
\* label (key mgmt) in the second
C1_Witness ==
    /\ ndocs = 2
    /\ error = "none"
    /\ doctree = <<Node(TRUE, <<IdPools, IdMgmt>>, RawTerm)>>
    /\ [ i \in 1..Len(online_help) |-> online_help[i].key ]
           = <<BootKey, IdIntro, IdMgmt>>
    /\ online_help[2].title = RawQuote

(***************************************************************************)
(* C2.  Indexing criterion as stated: every section with two or more       *)
(* identifiers gets an entry under its canonical key, and a document       *)
(* without such a section leaves the table unchanged.                      *)
(***************************************************************************)
C2_EveryTwoIdSection ==
    [][WriteDocStep =>
         /\ \A i \in 1..Len(doctree') :
               Len(doctree'[i].ids) >= 2 => KeyAt(doctree', i) \in Keys(online_help')
         /\ (\A i \in 1..Len(doctree') : Len(doctree'[i].ids) < 2)
               => online_help' = online_help]_vars

(***************************************************************************)
(* C2, amended.  Once init has created the table, write_doc changes it     *)
(* only for sections that carry the label marker                           *)
(* (expect_referenced_by_id) and two or more identifiers:                  *)
(* the keys afterwards are the old keys and the canonical keys of those    *)
(* sections, each key has exactly one entry, entries of other keys keep    *)
(* their place and value, and every other section (fewer than two          *)
(* identifiers, or no marker) leaves the table unchanged.                  *)
(***************************************************************************)
C2_IndexingCriterion ==
    [][WriteDocStep =>
         LET new == { KeyAt(doctree', i) : i \in LabelledAt(doctree') }
         IN /\ Keys(online_help') = Keys(online_help) \cup new
            /\ Len(online_help') = Cardinality(Keys(online_help) \cup new)
            /\ \A i \in 1..Len(online_help) :
                  online_help[i].key \notin new => online_help'[i] = online_help[i]
            /\ new = {} => online_help' = online_help]_vars

C2_Witness ==
    /\ ndocs = 1
    /\ Len(online_help) = 2
    /\ \E i, j \in 1..Len(doctree) :
          /\ Len(doctree[i].ids) < 2
          /\ HasLabel(doctree[j])
          /\ KeyAt(doctree, j) = IdMgmt
          /\ online_help[2].key = IdMgmt

(***************************************************************************)
(* C3.  Link construction as stated: the link of every section indexed     *)
(* from <dir>/<page>.rst is "/docs/" + <page> + ".html" + "#" + key.       *)
(***************************************************************************)
StripRst(name) ==
    IF Len(name) >= 4 /\ SubSeq(name, Len(name) - 3, Len(name)) = RstExt
    THEN SubSeq(name, 1, Len(name) - 4)
    ELSE name

ClaimedLink(fname, k) ==
    DocsPrefix \o StripRst(Basename(fname)) \o HtmlExt \o <<"#">> \o k

C3_LinkConstruction ==
    TableExists =>
        \A i \in LabelledAt(doctree) :
            Lookup(online_help, KeyAt(doctree, i)).link
                = ClaimedLink(filename, KeyAt(doctree, i))

(***************************************************************************)
(* C4.  Title extraction as stated: a raw title wrapped in the term markup *)
(* (the 7-character prefix and a trailing backtick) is stored as the       *)
(* enclosed text, any other raw title is stored unchanged.                 *)
(***************************************************************************)
IsWrapped(raw) ==
    /\ Len(raw) >= TermPrefixLen + 1
    /\ Take(raw, TermPrefixLen) = TermPrefix
    /\ raw[Len(raw)] = Grave

ClaimedTitle(raw) ==
    IF IsWrapped(raw) THEN SubSeq(raw, TermPrefixLen + 1, Len(raw) - 1) ELSE raw

C4_TitleExtraction ==
    TableExists =>
        \A i \in LabelledAt(doctree) :
            LET k == KeyAt(doctree, i)
            IN Lookup(online_help, k).title
                   = ClaimedTitle(doctree[LastAt(doctree, k)].rawsource)

(***************************************************************************)
(* C5.  Duplicate labels are last-write-wins: after write_doc every key    *)
(* has exactly one entry; a key some labelled section of the document      *)
(* resolves to holds the link and title of the last such section, and      *)
(* every other key holds the entry it held before.                         *)
(***************************************************************************)
C5_LastWriteWins ==
    [][WriteDocStep =>
         /\ Cardinality(Keys(online_help')) = Len(online_help')
         /\ \A k \in Keys(online_help') :
               IF \E i \in LabelledAt(doctree') : KeyAt(doctree', i) = k
               THEN Lookup(online_help', k) =
                        Entry(k, Link(filename', k),
                              RefName(doctree'[LastAt(doctree', k)].rawsource))
               ELSE /\ k \in Keys(online_help)
                    /\ Lookup(online_help', k) = Lookup(online_help, k)]_vars

\* a document with two sections that resolve to the key mgmt: the entry
\* is that of the second one
C5_Witness ==
    /\ ndocs = 1
    /\ error = "none"
    /\ filename = FileStorage
    /\ doctree = << Node(TRUE, <<IdIntro, IdMgmt, Id3>>, RawTermOpen),
                    Node(TRUE, <<IdPools, IdMgmt>>, RawTerm) >>
    /\ Len(online_help) = 2
    /\ online_help[2] = Entry(IdMgmt, Link(FileStorage, IdMgmt), <<"F", "o", "o">>)

(***************************************************************************)
(* C6.  Bootstrap entry as stated: from the end of init on, the first      *)
(* entry of the table is pbs_documentation_index with the link             *)
(* /docs/index.html and the title of the documentation index.              *)
(***************************************************************************)
C6_BootstrapEntry ==
    state \in {"SessionOpen", "Finalized"} =>
        /\ Len(online_help) >= 1
        /\ online_help[1] = Entry(BootKey, BootLink, BootTitle)

(***************************************************************************)
(* C7.  Serialization at finish: the text written is the prefix            *)
(* "const proxmoxOnlineHelpInfo = ", a JSON object, ";" and one newline;   *)
(* the JSON object reads back as the table as it stood before finish, key  *)
(* by key in insertion order, and finish leaves the table as it was.       *)
(***************************************************************************)
C7_Serialization ==
    [][(output = "open" /\ output' = "closed" /\ error' = "none") =>
         LET n == Len(written')
             body == SubSeq(written', Len(JsPrefix) + 1, n - Len(JsSuffix))
         IN /\ online_help' = online_help
            /\ n >= Len(JsPrefix) + Len(JsSuffix) + 2
            /\ SubSeq(written', 1, Len(JsPrefix)) = JsPrefix
            /\ SubSeq(written', n - Len(JsSuffix) + 1, n) = JsSuffix
            /\ body[1] = "{"
            /\ body[Len(body)] = "}"
            /\ JsonLoads(body) = [ok |-> TRUE, val |-> AsMembers(online_help)]]_vars

C7_Witness ==
    /\ state = "Finalized"
    /\ Len(online_help) = 3
    /\ \E i \in 1..3 : online_help[i].title = RawQuote
    /\ written = JsPrefix \o JsonDumps(online_help) \o JsSuffix

(***************************************************************************)
(* C8.  Non-empty entries as stated: once finish has written the output,   *)
(* every entry of the table has a non-empty link and a non-empty title.    *)
(***************************************************************************)
C8_NonEmptyEntries ==
    state = "Finalized" =>
        \A i \in 1..Len(online_help) :
            online_help[i].link # <<>> /\ online_help[i].title # <<>>

(***************************************************************************)
(* C9.  Session lifecycle as stated: the session only moves forward        *)
(* through Uninitialized, SessionOpen, Finalized (or Aborted); once        *)
(* Finalized no operation writes to the output or reopens it, and the only *)
(* step that writes is one finish of an open session that has written      *)
(* nothing yet.                                                            *)
(***************************************************************************)
Forward ==
    { <<"Uninitialized", "Uninitialized">>,
      <<"Uninitialized", "SessionOpen">>, <<"Uninitialized", "Aborted">>,
      <<"SessionOpen", "SessionOpen">>, <<"SessionOpen", "Finalized">>,
      <<"SessionOpen", "Aborted">>,
      <<"Finalized", "Finalized">>, <<"Finalized", "Aborted">>,
      <<"Aborted", "Aborted">> }

C9_Lifecycle ==
    [][/\ <<state, state'>> \in Forward
       /\ state = "Finalized" => written' = written /\ output' = "closed"
       /\ written' # written => state = "SessionOpen" /\ written = <<>>]_vars

(***************************************************************************)
(* C10.  Setup failure is fatal, as stated: an init that cannot create     *)
(* the output directory or cannot open the output file raises OSError and  *)
(* leaves no output and nothing written; a finish whose write or close     *)
(* fails raises OSError and does not reach Finalized; and after such a     *)
(* failure nothing happens any more: no document is processed, nothing is  *)
(* written and init is not tried again.                                    *)
(***************************************************************************)
C10_FailureIsFatal ==
    [][/\ error # "OSError"
       /\ (disk \in {"nodir", "noopen"} /\ ~TableExists /\ online_help' # <<>>) =>
             /\ state' = "Aborted"
             /\ error' = "OSError"
             /\ output' = "unset"
             /\ written' = <<>>
       /\ (disk = "nowrite" /\ output = "open" /\ written' # written) =>
             /\ state' = "Aborted"
             /\ error' = "OSError"]_vars

=====
